---- MODULE Spec2Model ----
(***************************************************************************)
(* Model of the split_last crate (src/src/lib.rs).                         *)
(*                                                                         *)
(* <&str as SplitLast>::split_last(self, pat) strips one trailing match of *)
(* pat from self, splits the rest on pat and returns the last segment, or  *)
(* SplitError("Failed to split") when the split yields no segment.         *)
(*                                                                         *)
(* Text is a sequence of one-byte characters; a &str slice of a text is a  *)
(* pair of byte offsets [a, b) into it, as in Rust.  A pattern is one of   *)
(* the three kinds of Pattern whose searcher is a ReverseSearcher: a char, *)
(* a &str (possibly empty) and a char predicate.                           *)
(***************************************************************************)
EXTENDS Integers, Sequences, FiniteSets, TLC

VARIABLES self, pat, pc, target, iter, last, result, calls

vars == <<self, pat, pc, target, iter, last, result, calls>>

\* ------------------------------------------------------------------ bounds
MaxLen == 4
MaxPatLen == 2
MaxCalls == 2

Alphabet == {"a", "b", "/"}

Strings(n) == UNION {[1..k -> Alphabet] : k \in 0..n}

\* ---------------------------------------------------------------- patterns
CharPat(c) == [kind |-> "char", s |-> <<c>>, f |-> {}]
StrPat(s) == [kind |-> "str", s |-> s, f |-> {}]
PredPat(f) == [kind |-> "pred", s |-> <<>>, f |-> f]

Patterns ==
    {CharPat(c) : c \in Alphabet}
        \cup {StrPat(s) : s \in Strings(MaxPatLen)}
        \cup {PredPat(f) : f \in SUBSET Alphabet}

\* ------------------------------------------------------------------ slices
\* haystack[a..b]
Slice(h, a, b) == SubSeq(h, a + 1, b)

None == [some |-> FALSE, a |-> 0, b |-> 0]
Some(a, b) == [some |-> TRUE, a |-> a, b |-> b]

\* The number of bytes a match of p covers.
MatchLen(p) == IF p.kind = "pred" THEN 1 ELSE Len(p.s)

\* p matches h at byte offset i.
MatchesAt(p, h, i) ==
    /\ i >= 0
    /\ i + MatchLen(p) <= Len(h)
    /\ IF p.kind = "pred"
       THEN h[i + 1] \in p.f
       ELSE Slice(h, i, i + Len(p.s)) = p.s

\* A wrong strip: removes every trailing match, not one.
RECURSIVE StripAllSuffixOf(_, _)
StripAllSuffixOf(p, h) ==
    IF MatchLen(p) > 0 /\ MatchesAt(p, h, Len(h) - MatchLen(p))
    THEN LET r == StripAllSuffixOf(p, Slice(h, 0, Len(h) - MatchLen(p)))
         IN  IF r.some THEN r ELSE Some(0, Len(h) - MatchLen(p))
    ELSE IF MatchLen(p) = 0 THEN Some(0, Len(h)) ELSE None

\* A wrong strip: cuts the length of a match off the end without testing it.
StripUnchecked(p, h) ==
    IF MatchLen(p) <= Len(h) THEN Some(0, Len(h) - MatchLen(p)) ELSE None

\* A wrong strip: never strips.
StripNever(p, h) == None

\* pat.strip_suffix_of(haystack): the haystack without its trailing match
\* of p, None when the haystack does not end with a match.
StripSuffixOf(p, h) ==
    IF MatchesAt(p, h, Len(h) - MatchLen(p))
    THEN Some(0, Len(h) - MatchLen(p))
    ELSE None

\* ---------------------------------------------------------------- searcher
\* The searcher's state is the offset its next search starts at.  An empty
\* needle matches at every offset 0..len once; past len it is exhausted.
NoMatch(pos) == [some |-> FALSE, a |-> 0, b |-> 0, position |-> pos]

\* A wrong searcher: resumes one byte past the end of the match it found.
NextMatchSkip(p, h, pos) ==
    LET hits == {i \in pos..Len(h) : MatchesAt(p, h, i)}
    IN  IF hits = {}
        THEN NoMatch(pos)
        ELSE LET i == CHOOSE x \in hits : \A y \in hits : x <= y
             IN  [some |-> TRUE, a |-> i, b |-> i + MatchLen(p),
                  position |-> i + MatchLen(p) + 1]

\* A wrong searcher: resumes one byte past the start of the match it found,
\* so that it reports overlapping matches.
NextMatchOverlap(p, h, pos) ==
    LET hits == {i \in pos..Len(h) : MatchesAt(p, h, i)}
    IN  IF hits = {}
        THEN NoMatch(pos)
        ELSE LET i == CHOOSE x \in hits : \A y \in hits : x <= y
             IN  [some |-> TRUE, a |-> i, b |-> i + MatchLen(p),
                  position |-> i + 1]

\* Searcher::next_match: the first match at or after the position, and the
\* position after it.
NextMatch(p, h, pos) ==
    LET hits == {i \in pos..Len(h) : MatchesAt(p, h, i)}
    IN  IF hits = {}
        THEN NoMatch(pos)
        ELSE LET i == CHOOSE x \in hits : \A y \in hits : x <= y
             IN  [some |-> TRUE, a |-> i, b |-> i + MatchLen(p),
                  position |-> IF MatchLen(p) = 0 THEN i + 1 ELSE i + MatchLen(p)]

\* ------------------------------------------------------------------- split
\* A wrong end of split: the trailing empty segment is dropped.
GetEndNoTrailingEmpty(it) ==
    IF ~it.finished /\ it.end - it.start > 0 THEN Some(it.start, it.end) ELSE None

\* The end of the Split iterator: the rest of the haystack, once, be it
\* empty (str::split keeps a trailing empty segment).
GetEnd(it) ==
    IF ~it.finished THEN Some(it.start, it.end) ELSE None

\* target.split(pat): the iterator before its first element.
NewSplit(t) ==
    [start |-> t.a, end |-> t.b, position |-> t.a, finished |-> FALSE]

\* ------------------------------------------------------------------ result
Ok(r) == [ok |-> TRUE, a |-> r.a, b |-> r.b, msg |-> ""]
Err(m) == [ok |-> FALSE, a |-> 0, b |-> 0, msg |-> m]
NoResult == [ok |-> FALSE, a |-> 0, b |-> 0, msg |-> "pending"]

\* The text a successful result borrows from self.
ResultStr == Slice(self, result.a, result.b)

\* ------------------------------------------------------------------- state
Init ==
    /\ self \in Strings(MaxLen)
    /\ pat \in Patterns
    /\ pc = "strip"
    /\ target = None
    /\ iter = NewSplit(Some(0, 0))
    /\ last = None
    /\ result = NoResult
    /\ calls = 1

\* let target = match pat.strip_suffix_of(self) { Some(t) => t, None => self }
Strip ==
    /\ pc = "strip"
    /\ LET s == StripSuffixOf(pat, self)
       IN  target' = IF s.some THEN s ELSE Some(0, Len(self))
    /\ pc' = "split"
    /\ UNCHANGED <<self, pat, iter, last, result, calls>>

\* target.split(pat)
Split ==
    /\ pc = "split"
    /\ iter' = NewSplit(target)
    /\ last' = None
    /\ pc' = "last"
    /\ UNCHANGED <<self, pat, target, result, calls>>

\* One turn of .last(): Split::next() yields the segment up to the next
\* match, or the end segment, and last() keeps it.
LastNext ==
    /\ pc = "last"
    /\ ~iter.finished
    /\ LET m == NextMatch(pat, Slice(self, 0, iter.end), iter.position)
       IN  IF m.some
           THEN /\ last' = Some(iter.start, m.a)
                /\ iter' = [iter EXCEPT !.start = m.b, !.position = m.position]
           ELSE /\ last' = LET e == GetEnd(iter) IN IF e.some THEN e ELSE last
                /\ iter' = [iter EXCEPT !.finished = TRUE]
    /\ UNCHANGED <<self, pat, pc, target, result, calls>>

\* .ok_or_else(|| SplitError("Failed to split".to_string())), once next()
\* has returned None.
OkOrElse ==
    /\ pc = "last"
    /\ iter.finished
    /\ result' = IF last.some THEN Ok(last) ELSE Err("Failed to split")
    /\ pc' = "done"
    /\ UNCHANGED <<self, pat, target, iter, last, calls>>

\* The caller applies split_last to the segment it was given, with the same
\* pattern.
CallAgain ==
    /\ pc = "done"
    /\ result.ok
    /\ calls < MaxCalls
    /\ self' = ResultStr
    /\ calls' = calls + 1
    /\ pc' = "strip"
    /\ target' = None
    /\ iter' = NewSplit(Some(0, 0))
    /\ last' = None
    /\ result' = NoResult
    /\ UNCHANGED pat

Next == Strip \/ Split \/ LastNext \/ OkOrElse \/ CallAgain

Spec == Init /\ [][Next]_vars

\* ------------------------------------------------- vocabulary of the claims
Done == pc = "done"

NonEmptyPat(p) == p.kind = "pred" \/ Len(p.s) > 0

Literal(p) == p.kind \in {"char", "str"}

\* h holds a match of p somewhere.
Contains(p, h) == \E i \in 0..Len(h) : MatchesAt(p, h, i)

\* h ends with a match of p.
EndsWith(p, h) == MatchesAt(p, h, Len(h) - MatchLen(p))

\* self with one trailing match of pat removed, if it ends with one.
Working ==
    IF EndsWith(pat, self) THEN Slice(self, 0, Len(self) - MatchLen(pat)) ELSE self

\* The segments of h between its non-overlapping matches of p, found left to
\* right.  Between the matches of the empty pattern lie the single
\* characters, with an empty segment before the first and after the last.
RECURSIVE RefSplit(_, _)
RefSplit(h, p) ==
    IF MatchLen(p) = 0
    THEN <<<<>>>> \o [k \in 1..Len(h) |-> <<h[k]>>] \o <<<<>>>>
    ELSE IF ~Contains(p, h)
         THEN <<h>>
         ELSE LET i == CHOOSE x \in 0..Len(h) :
                          /\ MatchesAt(p, h, x)
                          /\ \A y \in 0..(x - 1) : ~MatchesAt(p, h, y)
              IN  <<Slice(h, 0, i)>> \o RefSplit(Slice(h, i + MatchLen(p), Len(h)), p)

HasNonEmpty(segs) == \E k \in 1..Len(segs) : segs[k] # <<>>

LastNonEmpty(segs) ==
    segs[CHOOSE k \in 1..Len(segs) :
            /\ segs[k] # <<>>
            /\ \A j \in (k + 1)..Len(segs) : segs[j] = <<>>]

LastOf(segs) == segs[Len(segs)]

\* ------------------------------------------------------------------ claims

\* h with every trailing match of p removed, however many there are.
RECURSIVE WithoutTrailing(_, _)
WithoutTrailing(h, p) ==
    IF MatchLen(p) > 0 /\ EndsWith(p, h)
    THEN WithoutTrailing(Slice(h, 0, Len(h) - MatchLen(p)), p)
    ELSE h

C2_EqualsReference ==
    Done => /\ result.ok
            /\ ResultStr = LastOf(RefSplit(Working, pat))

C2_Witness ==
    /\ Done
    /\ pat.kind = "str"
    /\ Len(pat.s) = 2
    /\ EndsWith(pat, self)
    /\ Len(RefSplit(Working, pat)) >= 2
    /\ result.ok
    /\ ResultStr = LastOf(RefSplit(Working, pat))

\* C3: when self holds no match of a non-empty pattern, split_last returns
\* Ok of the whole of self.
C3_NoMatchReturnsInput ==
    (Done /\ NonEmptyPat(pat) /\ ~Contains(pat, self))
        => result = Ok(Some(0, Len(self)))

C3_Witness ==
    /\ Done
    /\ NonEmptyPat(pat)
    /\ ~Contains(pat, self)
    /\ Len(self) >= 2
    /\ result = Ok(Some(0, Len(self)))

\* self is x + w, or x + w + c, for a prefix x that is empty or ends with c
\* and a non-empty word w without c: x = self[..i], w = self[i..j].
WordAt(c, i, j) ==
    /\ i < j
    /\ \A k \in (i + 1)..j : self[k] # c
    /\ (i = 0 \/ self[i] = c)
    /\ Slice(self, j, Len(self)) \in {<<>>, <<c>>}

\* C4: for a single-character delimiter c, a non-empty word w without c and
\* a prefix x that is empty or ends with c, split_last of x + w and of
\* x + w + c both return Ok(w).
C4_LastWord ==
    (Done /\ pat.kind = "char")
        => \A i \in 0..Len(self) : \A j \in 0..Len(self) :
              WordAt(pat.s[1], i, j) => result = Ok(Some(i, j))

C4_Witness ==
    /\ Done
    /\ pat.kind = "char"
    /\ \E i \in 2..Len(self) : \E j \in 0..(Len(self) - 1) :
          /\ WordAt(pat.s[1], i, j)
          /\ self[i - 1] = pat.s[1]
          /\ result = Ok(Some(i, j))

\* C5: for a literal pattern (a character or a substring) split_last returns
\* Ok: the split always yields a segment, and SplitError("Failed to split")
\* is never produced.
C5_LiteralNeverFails ==
    Literal(pat)
        => /\ (pc = "last" /\ iter.finished) => last.some
           /\ Done => (result.ok /\ result # Err("Failed to split"))

C5_Witness ==
    /\ Done
    /\ Literal(pat)
    /\ Contains(pat, self)
    /\ NonEmptyPat(pat)
    /\ result.ok

\* C6: a successful result is a slice self[a..b] of self, self = x + r + s,
\* where s is empty when self does not end with a match of pat and s is the
\* one stripped trailing match when it does; self is not modified by the
\* call.
C6_SliceOfInput ==
    /\ [](Done /\ result.ok
            => /\ 0 <= result.a
               /\ result.a <= result.b
               /\ result.b <= Len(self)
               /\ ~EndsWith(pat, self) => result.b = Len(self)
               /\ EndsWith(pat, self)
                     => /\ result.b = Len(self) - MatchLen(pat)
                        /\ MatchesAt(pat, self, result.b))
    /\ [][calls' = calls => (self' = self /\ pat' = pat)]_vars

C6_Witness ==
    /\ Done
    /\ result.ok
    /\ EndsWith(pat, self)
    /\ MatchLen(pat) >= 1
    /\ 0 < result.a
    /\ result.a < result.b
    /\ result.b = Len(self) - MatchLen(pat)

\* C7: applying split_last, with the same non-empty pattern, to a segment it
\* returned that holds no match of the pattern returns that segment whole.
C7_ReapplyUnchanged ==
    (Done /\ calls >= 2 /\ NonEmptyPat(pat) /\ ~Contains(pat, self))
        => (result.ok /\ ResultStr = self)

C7_Witness ==
    /\ Done
    /\ calls = 2
    /\ NonEmptyPat(pat)
    /\ ~Contains(pat, self)
    /\ self # <<>>
    /\ result.ok
    /\ ResultStr = self

\* C8: for the empty text and any pattern, split_last returns Ok(""), one
\* empty segment, and no SplitError.
C8_EmptyText ==
    (Done /\ self = <<>>) => (result = Ok(Some(0, 0)) /\ last.some)

C8_Witness ==
    /\ Done
    /\ calls = 1
    /\ self = <<>>
    /\ result = Ok(Some(0, 0))

\* self ends with two or more consecutive occurrences of the character c.
EndsWithTwo(c) ==
    /\ Len(self) >= 2
    /\ self[Len(self)] = c
    /\ self[Len(self) - 1] = c

C10_ResultHoldsNoMatch ==
    (Done /\ Literal(pat) /\ NonEmptyPat(pat))
        => /\ result.ok
           /\ ~Contains(pat, ResultStr)
           /\ calls >= 2 => ResultStr = self

C10_Witness ==
    /\ Done
    /\ calls = 2
    /\ pat = StrPat(<<"a", "a">>)
    /\ Len(self) >= 2
    /\ result.ok
    /\ ResultStr = self

====
